---- MODULE Spec2Model ----
(***************************************************************************)
(* Model of create_github_issues.py: the module-level helpers              *)
(* (check_configuration, load_issues_from_yaml, create_github_issue) and   *)
(* the command-line entry point main().                                    *)
(*                                                                         *)
(* Python values are modelled as follows.  A dict is a TLA+ function with  *)
(* a domain of strings (a record), so that a missing key is a key outside  *)
(* DOMAIN.  A value whose Python type matters (the result of               *)
(* yaml.safe_load) is tagged with its type in the field py.  Printed       *)
(* lines are recorded in log by the kind of line.                          *)
(***************************************************************************)
EXTENDS Integers, Sequences, FiniteSets, TLC

VARIABLES
    entry,          \* which function of the module the run calls
    pc,             \* position of the run
    args,           \* the command line: options present, and --dry-run
    file,           \* what is found at the task-file path
    issue_data,     \* the argument of create_github_issue
    task_list,      \* main: result of the loader
    p,              \* main: index of the current phase (1-based)
    t,              \* main: index of the current task within the phase
    created_issues, \* main: list created_issues
    failed_issues,  \* main: list failed_issues
    posts,          \* every submission made (create_issue call / HTTP POST)
    response,       \* the response to the last submission
    previews,       \* the "Would create" lines of a dry run (title, labels)
    log,            \* kinds of the lines printed, in order
    summary,        \* the tallies the summary prints
    exit_code       \* process exit status, meaningful once pc = "exited"

vars == <<entry, pc, args, file, issue_data, task_list, p, t, created_issues,
          failed_issues, posts, response, previews, log, summary, exit_code>>

---------------------------------------------------------------------------
(* Bounds of the model *)
MaxPhases == 2
MaxTasks == 2

(* Module-level configuration *)
REPO_OWNER == "YourGitHubUsername"
REPO_NAME == "your-repo-name"

(* The status create_github_issue reports as success *)
HTTP_CREATED == 201

---------------------------------------------------------------------------
(* Python helpers *)

\* dict.get(k, default)
Get(d, k, default) == IF k \in DOMAIN d THEN d[k] ELSE default

PyNone == [py |-> "none"]
PyList(items) == [py |-> "list", items |-> items]
PyDict(d) == [py |-> "dict", d |-> d]

\* `not v` for the values yaml.safe_load can return here
Falsy(v) ==
    \/ v.py = "none"
    \/ v.py = "list" /\ v.items = <<>>
    \/ v.py = "dict" /\ DOMAIN v.d = {}

\* all sequences over S of length 0..n
SeqUpTo(S, n) == UNION {[1..k -> S] : k \in 0..n}

---------------------------------------------------------------------------
(* Inputs *)

\* task records of a phase document
TaskRecords ==
    { [id |-> "T1", title |-> "Setup repo", labels |-> <<"setup">>],
      [title |-> "Write README"],
      [id |-> "T2", labels |-> <<"docs">>] }

\* records handed to create_github_issue
IssueRecords ==
    LET Ids == { <<>>, [id |-> "T1"] }
        Titles == { <<>>, [title |-> ""], [title |-> "Setup repo"] }
        Bodies == { <<>>, [body |-> "text"] }
        Labels == { <<>>, [labels |-> <<"setup">>] }
        Assignees == { <<>>, [assignee |-> ""], [assignee |-> "octocat"] }
        Milestones == { <<>>, [milestone |-> "v1"] }
    IN { a @@ b @@ c @@ d @@ e @@ f :
           a \in Ids, b \in Titles, c \in Bodies, d \in Labels,
           e \in Assignees, f \in Milestones }

\* the phases with exactly n tasks; a phase may also lack name and tasks
PhasesWith(n) ==
    { [name |-> "Setup", tasks |-> ts] : ts \in [1..n -> TaskRecords] }
        \cup (IF n = 0 THEN { [description |-> "no tasks yet"] } ELSE {})

\* the phase lists of at most k phases holding at most n tasks in all
RECURSIVE PhaseLists(_, _)
PhaseLists(k, n) ==
    IF k = 0 THEN { <<>> }
    ELSE { <<>> } \cup
         UNION { { <<ph>> \o rest : ph \in PhasesWith(m), rest \in PhaseLists(k - 1, n - m) }
                 : m \in 0..n }

YamlValues ==
    { PyNone, PyDict(<<>>), PyDict([project |-> "Pixel to Profit"]) }
        \cup { PyList(ts) : ts \in SeqUpTo(TaskRecords, MaxTasks) }
        \cup { PyDict([phases |-> ps]) : ps \in PhaseLists(MaxPhases, MaxTasks) }

Files ==
    { [kind |-> "missing"], [kind |-> "malformed"] }
        \cup { [kind |-> "yaml", value |-> v] : v \in YamlValues }

\* the options given on the command line
Options ==
    { [token |-> "ghp_secret", repo |-> "pixel-to-profit", owner |-> "octo"],
      [token |-> "ghp_secret", repo |-> REPO_NAME, owner |-> REPO_OWNER],
      [token |-> "", repo |-> "pixel-to-profit", owner |-> "octo"],
      [repo |-> "pixel-to-profit", owner |-> "octo"] }

CommandLines == { [opts |-> o, dry_run |-> d] : o \in Options, d \in BOOLEAN }

\* the canonical URL of issue number n
IssueUrl(n) == "https://github.com/octo/pixel-to-profit/issues/" \o ToString(n)

\* what the server (or the transport) can answer to the n-th submission
Responses(n) ==
    { [kind |-> "http", status |-> HTTP_CREATED, number |-> n, html_url |-> IssueUrl(n)],
      [kind |-> "http", status |-> 200],
      [kind |-> "http", status |-> 422],
      [kind |-> "exception"] }

NoResponse == [kind |-> "none"]

---------------------------------------------------------------------------
(* check_configuration: the module globals REPO_OWNER, REPO_NAME and       *)
(* GITHUB_TOKEN it reads are passed as the configuration cfg; an unset     *)
(* token is a missing key.                                                 *)
check_configuration(cfg) ==
    IF cfg.owner = REPO_OWNER \/ cfg.repo = REPO_NAME
    THEN FALSE
    ELSE IF "token" \notin DOMAIN cfg \/ cfg.token = ""
         THEN FALSE
         ELSE TRUE

\* mutant: a loader that falls back to an empty document when the file
\* cannot be read or parsed
load_issues_from_yaml_default(f) ==
    IF f.kind = "missing" \/ f.kind = "malformed"
    THEN [value |-> PyDict([phases |-> <<>>]), printed |-> <<"error_load">>]
    ELSE IF Falsy(f.value)
         THEN [value |-> PyList(<<>>), printed |-> <<"warning_empty">>]
         ELSE [value |-> f.value, printed |-> <<>>]

(* load_issues_from_yaml: the value returned and the line printed *)
load_issues_from_yaml(f) ==
    IF f.kind = "missing"
    THEN [value |-> PyNone, printed |-> <<"error_not_found">>]
    ELSE IF f.kind = "malformed"
         THEN [value |-> PyNone, printed |-> <<"error_parse">>]
         ELSE IF Falsy(f.value)
              THEN [value |-> PyList(<<>>), printed |-> <<"warning_empty">>]
              ELSE [value |-> f.value, printed |-> <<>>]

(* load_task_list: the loader main calls *)
load_task_list(f) == load_issues_from_yaml(f)

---------------------------------------------------------------------------
(* create_github_issue *)

\* the guard of the skip branch
MissingTitle(data) == "title" \notin DOMAIN data

\* the request payload
Payload(data) ==
    [title |-> Get(data, "title", PyNone),
     body |-> IF "body" \in DOMAIN data THEN [py |-> "str", s |-> data.body] ELSE PyNone,
     labels |-> Get(data, "labels", <<>>)]
        @@ (IF Get(data, "assignee", "") # ""
            THEN [assignees |-> <<data.assignee>>]
            ELSE <<>>)

MilestoneNotice(data) ==
    IF Get(data, "milestone", "") # "" THEN <<"info_milestone">> ELSE <<>>

\* response.raise_for_status(): HTTPError for 4XX and 5XX
RaisesForStatus(r) == r.status >= 400 /\ r.status < 600

\* mutant: any 2xx status taken for success
IsCreated_any2xx(r) == r.status >= 200 /\ r.status < 300

\* the test of the success branch
IsCreated(r) == r.status = HTTP_CREATED

\* the lines the try block prints for response r
ReportResponse(r) ==
    IF r.kind = "exception"
    THEN <<"error">>
    ELSE IF RaisesForStatus(r)
         THEN <<"error">>
         ELSE IF IsCreated(r) THEN <<"success">> ELSE <<"failed_status">>

CreateGithubIssue ==
    /\ entry = "create_github_issue"
    /\ pc = "call"
    /\ IF MissingTitle(issue_data)
       THEN /\ log' = Append(log, "skip")
            /\ UNCHANGED <<posts, response>>
       ELSE \E r \in Responses(Len(posts) + 1) :
            /\ posts' = Append(posts, Payload(issue_data))
            /\ response' = r
            /\ log' = log \o MilestoneNotice(issue_data) \o ReportResponse(r)
    /\ pc' = "returned"
    /\ UNCHANGED <<entry, args, file, issue_data, task_list, p, t, created_issues,
                   failed_issues, previews, summary, exit_code>>

---------------------------------------------------------------------------
(* main *)

\* argparse: --token, --repo and --owner are required
RequiredOptions == {"token", "repo", "owner"}

\* task_list.get('phases', [])
PhasesOf(doc) == Get(doc.d, "phases", <<>>)

\* phase.get('tasks', [])
TasksOf(phase) == Get(phase, "tasks", <<>>)

\* phase.get('name', 'Unknown Phase')
PhaseName(phase) == Get(phase, "name", "Unknown Phase")

\* task.get('id', 'Unknown')
TaskId(task) == Get(task, "id", "Unknown")

\* task.get('title', 'Untitled Task')
TaskTitle(task) == Get(task, "title", "Untitled Task")

\* f"{task_id}: {title}"
FormattedTitle(task_id, title) == task_id \o ": " \o title

\* generate_issue_body(task, phase_name): the record's body text
generate_issue_body(task, phase_name) == Get(task, "body", "")

\* get_labels_for_task(task, phase_name): the record's labels, default empty
get_labels_for_task(task, phase_name) == Get(task, "labels", <<>>)

\* GitHubIssueCreator.create_issue: the issue for a 201, None otherwise
create_issue(r) ==
    IF r.kind = "http" /\ r.status = 201
    THEN [ok |-> TRUE, number |-> r.number, html_url |-> r.html_url]
    ELSE [ok |-> FALSE]

\* mutant: the dry-run switch ignored
IsDryRun_ignored(a) == FALSE

\* `if args.dry_run:`
IsDryRun(a) == a.dry_run

\* created_issues.append({...})
RecordCreated(created, task_id, title, issue) ==
    Append(created, [id |-> task_id, title |-> title,
                     url |-> issue.html_url, number |-> issue.number])

\* mutant: a failed submission left out of failed_issues
RecordFailed_dropped(failed, task_id, title) == failed

\* failed_issues.append({...})
RecordFailed(failed, task_id, title) ==
    Append(failed, [id |-> task_id, title |-> title])

\* mutant: a failed submission tried again
NextTask_retry(i, issue) == IF issue.ok THEN i + 1 ELSE i

\* the task loop moves on to the next task whatever the outcome
NextTask(i, issue) == i + 1

\* sum(len(phase.get('tasks', [])) for phase in ...)
RECURSIVE TotalTasks(_)
TotalTasks(phases) ==
    IF phases = <<>> THEN 0
    ELSE Len(TasksOf(Head(phases))) + TotalTasks(Tail(phases))

Exit(code) == pc' = "exited" /\ exit_code' = code

ParseArgs ==
    /\ entry = "main"
    /\ pc = "parse_args"
    /\ IF RequiredOptions \subseteq DOMAIN args.opts
       THEN pc' = "load" /\ UNCHANGED <<log, exit_code>>
       ELSE log' = Append(log, "usage_error") /\ Exit(2)
    /\ UNCHANGED <<entry, args, file, issue_data, task_list, p, t, created_issues,
                   failed_issues, posts, response, previews, summary>>

LoadTaskList ==
    /\ pc = "load"
    /\ LET loaded == load_task_list(file)
       IN /\ task_list' = loaded.value
          /\ log' = log \o loaded.printed
    /\ pc' = "setup"
    /\ UNCHANGED <<entry, args, file, issue_data, p, t, created_issues,
                   failed_issues, posts, response, previews, summary, exit_code>>

Setup ==
    /\ pc = "setup"
    /\ created_issues' = <<>>
    /\ failed_issues' = <<>>
    /\ log' = Append(log, "banner")
    /\ p' = 1
    /\ pc' = "phases"
    /\ UNCHANGED <<entry, args, file, issue_data, task_list, t, posts, response,
                   previews, summary, exit_code>>

\* `for phase in task_list.get('phases', [])` on a value that is no dict
AttributeError ==
    /\ pc = "phases"
    /\ task_list.py # "dict"
    /\ log' = Append(log, "traceback")
    /\ Exit(1)
    /\ UNCHANGED <<entry, args, file, issue_data, task_list, p, t, created_issues,
                   failed_issues, posts, response, previews, summary>>

ForPhase ==
    /\ pc = "phases"
    /\ task_list.py = "dict"
    /\ IF p <= Len(PhasesOf(task_list))
       THEN /\ log' = Append(log, "phase")
            /\ t' = 1
            /\ pc' = "tasks"
       ELSE /\ pc' = "summary"
            /\ UNCHANGED <<log, t>>
    /\ UNCHANGED <<entry, args, file, issue_data, task_list, p, created_issues,
                   failed_issues, posts, response, previews, summary, exit_code>>

ProcessTask ==
    /\ pc = "tasks"
    /\ t <= Len(TasksOf(PhasesOf(task_list)[p]))
    /\ LET phase == PhasesOf(task_list)[p]
           phase_name == PhaseName(phase)
           task == TasksOf(phase)[t]
           task_id == TaskId(task)
           title == TaskTitle(task)
           body == generate_issue_body(task, phase_name)
           labels == get_labels_for_task(task, phase_name)
           formatted_title == FormattedTitle(task_id, title)
       IN IF IsDryRun(args)
          THEN /\ previews' = Append(previews,
                      [title |-> formatted_title, labels |-> labels])
               /\ log' = Append(log, "would_create")
               /\ t' = t + 1
               /\ UNCHANGED <<posts, response, created_issues, failed_issues>>
          ELSE \E r \in Responses(Len(posts) + 1) :
               LET issue == create_issue(r)
               IN /\ posts' = Append(posts,
                         [title |-> formatted_title, body |-> body, labels |-> labels])
                  /\ response' = r
                  /\ IF issue.ok
                     THEN /\ created_issues' =
                                 RecordCreated(created_issues, task_id, title, issue)
                          /\ log' = log \o <<"creating", "created">>
                          /\ UNCHANGED failed_issues
                     ELSE /\ failed_issues' = RecordFailed(failed_issues, task_id, title)
                          /\ log' = log \o <<"creating", "failed">>
                          /\ UNCHANGED created_issues
                  /\ t' = NextTask(t, issue)
                  /\ UNCHANGED previews
    /\ UNCHANGED <<entry, pc, args, file, issue_data, task_list, p, summary, exit_code>>

EndPhase ==
    /\ pc = "tasks"
    /\ t > Len(TasksOf(PhasesOf(task_list)[p]))
    /\ p' = p + 1
    /\ pc' = "phases"
    /\ UNCHANGED <<entry, args, file, issue_data, task_list, t, created_issues,
                   failed_issues, posts, response, previews, log, summary, exit_code>>

Summary ==
    /\ pc = "summary"
    /\ summary' =
         IF IsDryRun(args)
         THEN [printed |-> TRUE, would_create |-> TotalTasks(PhasesOf(task_list)),
               created |-> 0, failed |-> 0]
         ELSE [printed |-> TRUE, would_create |-> 0,
               created |-> Len(created_issues), failed |-> Len(failed_issues)]
    /\ log' = Append(log, "summary")
    /\ Exit(0)
    /\ UNCHANGED <<entry, args, file, issue_data, task_list, p, t, created_issues,
                   failed_issues, posts, response, previews>>

---------------------------------------------------------------------------
NoIssueData == [title |-> ""]
NoFile == [kind |-> "missing"]
NoCommandLine == [opts |-> <<>>, dry_run |-> FALSE]

Init ==
    /\ entry \in {"main", "create_github_issue"}
    /\ IF entry = "main"
       THEN /\ pc = "parse_args"
            /\ args \in CommandLines
            /\ file \in Files
            /\ issue_data = NoIssueData
       ELSE /\ pc = "call"
            /\ args = NoCommandLine
            /\ file = NoFile
            /\ issue_data \in IssueRecords
    /\ task_list = PyNone
    /\ p = 1
    /\ t = 1
    /\ created_issues = <<>>
    /\ failed_issues = <<>>
    /\ posts = <<>>
    /\ response = NoResponse
    /\ previews = <<>>
    /\ log = <<>>
    /\ summary = [printed |-> FALSE, would_create |-> 0, created |-> 0, failed |-> 0]
    /\ exit_code = 0

Next ==
    \/ CreateGithubIssue
    \/ ParseArgs
    \/ LoadTaskList
    \/ Setup
    \/ AttributeError
    \/ ForPhase
    \/ ProcessTask
    \/ EndPhase
    \/ Summary

Spec == Init /\ [][Next]_vars

---------------------------------------------------------------------------
(* Vocabulary of the properties *)

MainRun == entry = "main"
DirectCall == entry = "create_github_issue"
DryRun == MainRun /\ args.dry_run
RealRun == MainRun /\ ~args.dry_run
Loaded == MainRun /\ pc \in {"setup", "phases", "tasks", "summary", "exited"}
             /\ log # <<"usage_error">>
InLoop == Loaded /\ pc # "setup" /\ task_list.py = "dict"
Completed == MainRun /\ pc = "exited" /\ summary.printed

\* the task records of a document in source order
RECURSIVE FlatTasks(_)
FlatTasks(phases) ==
    IF phases = <<>> THEN <<>>
    ELSE TasksOf(Head(phases)) \o FlatTasks(Tail(phases))

Records == FlatTasks(PhasesOf(task_list))

HasTitle(task) == "title" \in DOMAIN task /\ task.title # ""

\* the outcome lines among the printed lines
OutcomeKinds == {"success", "failed_status", "error", "created", "failed"}
SuccessKinds == {"success", "created"}
IsOutcome(line) == line \in OutcomeKinds
Outcomes == SelectSeq(log, IsOutcome)
Count(seq, kind) == Cardinality({ i \in 1..Len(seq) : seq[i] = kind })

---------------------------------------------------------------------------
(* C1: over a complete run of main that is no dry run, the number of       *)
(* submissions equals the number of task records with a non-empty title.   *)
C1_AttemptsEqualTitledRecords ==
    (Completed /\ RealRun) =>
        Len(posts) = Cardinality({ i \in 1..Len(Records) : HasTitle(Records[i]) })

(* C2: a record without a title key is never submitted, neither by         *)
(* create_github_issue (which prints exactly one skip notice instead) nor  *)
(* by the task loop of main.                                               *)
C2_UntitledNeverSubmitted ==
    /\ (DirectCall /\ pc = "returned" /\ MissingTitle(issue_data)) =>
           (posts = <<>> /\ log = <<"skip">>)
    /\ (InLoop /\ RealRun) =>
           \A i \in 1..Len(posts) : ~MissingTitle(Records[i])

(* C5: an empty or null YAML document gives zero submissions and a run     *)
(* that ends with exit code 0.                                             *)
C5_EmptyDocumentExitsZero ==
    (MainRun /\ pc = "exited" /\ file.kind = "yaml" /\ Falsy(file.value)
        /\ RequiredOptions \subseteq DOMAIN args.opts) =>
        (posts = <<>> /\ exit_code = 0)

(* C6: main neither loads the task file nor submits anything unless the    *)
(* configuration check succeeds for the owner, repo and token it uses.     *)
C6_NoLoadWithoutValidConfiguration ==
    (Loaded \/ (MainRun /\ posts # <<>>)) => check_configuration(args.opts)

\* the title the Issue Mapper is specified to send
SpecifiedTitle(task) ==
    IF "id" \in DOMAIN task THEN task.id \o ": " \o task.title ELSE task.title

(* C7: the title main submits for a titled record is "{id}: {title}" when  *)
(* the record has an id and the raw title when it has none.                *)
C7_TitleIsIdPrefixedOnlyWithId ==
    (InLoop /\ RealRun) =>
        \A i \in 1..Len(posts) :
            HasTitle(Records[i]) => posts[i].title = SpecifiedTitle(Records[i])

---------------------------------------------------------------------------
\* what main passes to the submission call for a record
SentTitle(task) == FormattedTitle(TaskId(task), TaskTitle(task))
SentLabels(task) == get_labels_for_task(task, "")
SentBody(task) == generate_issue_body(task, "")

(* C3: a dry run makes no submission at all, prints exactly one "would     *)
(* create" preview for every record in source order, and each preview      *)
(* shows the title and labels that a real run passes to the submission     *)
(* call for that record.                                                   *)
C3_DryRunPreviewsWithoutNetwork ==
    /\ DryRun => (posts = <<>> /\ response = NoResponse)
    /\ (DryRun /\ InLoop) =>
           /\ Len(previews) <= Len(Records)
           /\ Count(log, "would_create") = Len(previews)
           /\ \A i \in 1..Len(previews) :
                  previews[i] = [title |-> SentTitle(Records[i]),
                                 labels |-> SentLabels(Records[i])]
    /\ (DryRun /\ Completed) =>
           /\ Len(previews) = Len(Records)
           /\ summary.would_create = Len(Records)
    /\ (RealRun /\ InLoop) =>
           /\ previews = <<>>
           /\ \A i \in 1..Len(posts) :
                  /\ posts[i].title = SentTitle(Records[i])
                  /\ posts[i].labels = SentLabels(Records[i])

C3_Witness ==
    /\ DryRun /\ Completed
    /\ Len(previews) = 2
    /\ previews[1] = [title |-> "T1: Setup repo", labels |-> <<"setup">>]
    /\ posts = <<>>

(* C4: when the task file is missing or malformed the loader reports it    *)
(* and returns its failure value, and main makes no submission, never      *)
(* enters the task loop or the summary, and ends with a non-zero exit.     *)
C4_LoadFailureStopsBeforeSubmission ==
    (MainRun /\ file.kind \in {"missing", "malformed"}) =>
        /\ posts = <<>> /\ previews = <<>>
        /\ pc \notin {"tasks", "summary"}
        /\ Loaded =>
               /\ task_list = PyNone
               /\ Head(log) = (IF file.kind = "missing"
                               THEN "error_not_found" ELSE "error_parse")
        /\ pc = "exited" => (exit_code # 0 /\ ~summary.printed)

C4_Witness ==
    /\ MainRun /\ file.kind = "malformed"
    /\ pc = "exited" /\ exit_code = 1
    /\ log = <<"error_parse", "banner", "traceback">>
    /\ posts = <<>>

(* C8: every submission prints exactly one outcome line, and that line     *)
(* reports success exactly when the response is an HTTP response with      *)
(* status 201; any other status and a transport exception are failures.    *)
C8_SuccessIffStatus201 ==
    /\ Len(Outcomes) = Len(posts)
    /\ posts # <<>> =>
           (Outcomes[Len(Outcomes)] \in SuccessKinds
               <=> (response.kind = "http" /\ response.status = 201))

C8_Witness ==
    /\ DirectCall /\ pc = "returned"
    /\ response.kind = "http" /\ response.status = 200
    /\ Outcomes = <<"failed_status">>
    /\ Len(posts) = 1

\* the number of tasks the loop of main has gone through
Attempted ==
    LET phases == PhasesOf(task_list)
        before == TotalTasks(SubSeq(phases, 1, p - 1))
    IN IF pc = "tasks" THEN before + (t - 1)
       ELSE IF pc = "phases" THEN before
       ELSE Len(Records)

(* C9: in a real run the submissions made so far are those of the tasks    *)
(* gone through so far, one each, in source order; a failed submission     *)
(* does not stop the loop: from every state the run can go on, and it      *)
(* exits only after the summary, with every task submitted and exit        *)
(* code 0.                                                                 *)
C9_SequentialOnceNoAbort ==
    (RealRun /\ InLoop) =>
        /\ Len(posts) = Attempted
        /\ \A i \in 1..Len(posts) :
               posts[i] = [title |-> SentTitle(Records[i]),
                           body |-> SentBody(Records[i]),
                           labels |-> SentLabels(Records[i])]
        /\ pc # "exited" => ENABLED Next
        /\ pc = "exited" =>
               (summary.printed /\ Len(posts) = Len(Records) /\ exit_code = 0)

C9_Witness ==
    /\ RealRun /\ Completed
    /\ Len(posts) = 2
    /\ Outcomes = <<"failed", "created">>
    /\ created_issues[1].number = 2
    /\ exit_code = 0

\* the entries of created_issues and failed_issues that the first n
\* outcomes call for
RECURSIVE CreatedFrom(_, _)
CreatedFrom(out, n) ==
    IF n = 0 THEN <<>>
    ELSE IF out[n] = "created"
         THEN Append(CreatedFrom(out, n - 1),
                     [id |-> TaskId(Records[n]), title |-> TaskTitle(Records[n]),
                      url |-> IssueUrl(n), number |-> n])
         ELSE CreatedFrom(out, n - 1)

RECURSIVE FailedFrom(_, _)
FailedFrom(out, n) ==
    IF n = 0 THEN <<>>
    ELSE IF out[n] = "failed"
         THEN Append(FailedFrom(out, n - 1),
                     [id |-> TaskId(Records[n]), title |-> TaskTitle(Records[n])])
         ELSE FailedFrom(out, n - 1)

(* C10: in a real run every task submitted so far is recorded in exactly   *)
(* one of created_issues and failed_issues, in submission order, in        *)
(* created_issues exactly when its submission returned an issue; the       *)
(* summary tallies add up to the number of submissions; in a dry run both  *)
(* lists stay empty.                                                       *)
C10_EveryAttemptTalliedOnce ==
    /\ DryRun => (created_issues = <<>> /\ failed_issues = <<>>)
    /\ (RealRun /\ InLoop) =>
           /\ Len(Outcomes) = Len(posts)
           /\ created_issues = CreatedFrom(Outcomes, Len(posts))
           /\ failed_issues = FailedFrom(Outcomes, Len(posts))
           /\ Len(created_issues) + Len(failed_issues) = Len(posts)
           /\ Completed =>
                  /\ summary.created = Len(created_issues)
                  /\ summary.failed = Len(failed_issues)
                  /\ summary.created + summary.failed = Len(posts)

C10_Witness ==
    /\ RealRun /\ Completed
    /\ Len(posts) = 2
    /\ Outcomes = <<"created", "failed">>
    /\ response.kind = "http" /\ response.status = 422
    /\ summary.created = 1 /\ summary.failed = 1

====
